---- MODULE Spec2Model ----
(***************************************************************************)
(* Wishlist Savings Tracker (src/Script.js): the goal store, the           *)
(* preferences, the two localStorage slots and the handlers that mutate    *)
(* them.                                                                   *)
(*                                                                         *)
(* Money is decimal fixed point.  One model unit is 1/Cent of 0.01, so an  *)
(* input may carry digits beyond the second fractional one and round2 has  *)
(* something to round.  Spec covers the magnitudes at which IEEE doubles   *)
(* carry such amounts exactly; SpecLarge covers amounts of [2^45, 2^46),   *)
(* where doubles are coarser than 0.01.  Overflow to Infinity is outside   *)
(* both.                                                                   *)
(***************************************************************************)
EXTENDS Integers, Sequences, FiniteSets, TLC

VARIABLES goals, prefs, storage, last, writable

vars == <<goals, prefs, storage, last, writable>>

(* ---------- bounds ---------- *)
MaxGoals == 2
MaxAmount == 6

(* Model units per 0.01: the factor 100 of round2 fixes two fractional     *)
(* digits; inputs are Cent times finer than what is stored.                *)
Cent == 4

(* Values uid() can return: "g_" + random digits + "_" + time digits.      *)
Ids == {"g_a", "g_b"}

SPACE == " "
NameInputs == {<<SPACE>>, <<SPACE, "B", SPACE>>}
DescInputs == {<<"d", SPACE>>}

(* Text of a numeric field or of the prompt: a decimal numeral (v units),  *)
(* text Number() maps to NaN, or text it maps to an infinity.              *)
NaNValue == [k |-> "nan", v |-> 0]
Num(n) == [k |-> "num", v |-> n]
TextInputs == {Num(n) : n \in 0..MaxAmount} \cup {NaNValue, [k |-> "inf", v |-> 0]}
(* prompt() returns null when it is cancelled. *)
Null == [k |-> "null", v |-> 0]

(* ---------- Utilities ---------- *)
Max(a, b) == IF a >= b THEN a ELSE b
Min(a, b) == IF a <= b THEN a ELSE b

clamp(n, min, max) == Max(min, Min(max, n))

isFinite(n) == n.k = "num"

safeNumber(value) == IF value.k = "num" THEN value ELSE NaNValue

round2(n) == ((2 * n + Cent) \div (2 * Cent)) * Cent

computeRemainingOfTarget(target, saved) == round2(Max(0, target))
computeRemaining(target, saved) == round2(Max(0, target - saved))

(* Percent in hundredths (the resolution pct.toFixed(2) displays), so that *)
(* it stays an integer: 10000 is 100%.                                     *)
computeProgressPct(target, saved) ==
  IF target <= 0 THEN 0
  ELSE clamp((saved * 10000) \div target, 0, 10000)

RECURSIVE trimStart(_)
trimStart(s) == IF s # <<>> /\ Head(s) = SPACE THEN trimStart(Tail(s)) ELSE s
RECURSIVE trimEnd(_)
trimEnd(s) ==
  IF s # <<>> /\ s[Len(s)] = SPACE THEN trimEnd(SubSeq(s, 1, Len(s) - 1)) ELSE s
trim(s) == trimEnd(trimStart(s))

(* goals.find((g) => g.id === id): index of the first match, 0 if none. *)
find(gs, id) ==
  IF \E i \in DOMAIN gs : gs[i].id = id
  THEN CHOOSE i \in DOMAIN gs : gs[i].id = id /\ \A j \in DOMAIN gs : gs[j].id = id => i <= j
  ELSE 0

newGoalUnrounded(id, name, desc, target) ==
  [id |-> id, name |-> trim(name), desc |-> trim(desc), target |-> target, saved |-> 0]
(* The record addGoal pushes.  createdAt (Date.now()) is left out: it is    *)
(* written here and read only by the sort of renderGrid.                   *)
newGoal(id, name, desc, target) ==
  [id |-> id, name |-> trim(name), desc |-> trim(desc), target |-> round2(target),
   saved |-> 0]

filterGoalsInverted(gs, id) == SelectSeq(gs, LAMBDA g : g.id = id)
(* goals.filter((g) => g.id !== id) *)
filterGoals(gs, id) == SelectSeq(gs, LAMBDA g : g.id # id)

exceedsRemainingNever(amt, remaining) == FALSE
exceedsRemainingReversed(amt, remaining) == amt < remaining
(* The test of line 278, on the rounded amount. *)
exceedsRemaining(amt, remaining) == amt > remaining

clampSavedNever(saved, target) == saved
(* Line 303: if (goal.saved > goal.target) goal.saved = goal.target *)
clampSaved(saved, target) == IF saved > target THEN target ELSE saved

(* ---------- Storage ---------- *)
(* renderSummary: the totals shown above the grid. *)
RECURSIVE totalRequired(_)
totalRequired(gs) ==
  IF gs = <<>> THEN 0 ELSE gs[Len(gs)].target + totalRequired(SubSeq(gs, 1, Len(gs) - 1))

RECURSIVE totalSaved(_)
totalSaved(gs) ==
  IF gs = <<>> THEN 0 ELSE gs[Len(gs)].saved + totalSaved(SubSeq(gs, 1, Len(gs) - 1))

totalRemaining(gs) == Max(0, totalRequired(gs) - totalSaved(gs))

renderSummary(gs) ==
  [sumGoals |-> Len(gs),
   sumRequired |-> round2(totalRequired(gs)),
   sumSaved |-> round2(totalSaved(gs)),
   sumRemaining |-> round2(totalRemaining(gs))]

defaultPrefs == [currency |-> "INR", theme |-> "dark"]

Absent == [k |-> "absent", json |-> <<>>]
stringifyGoals(gs) == [k |-> "json", json |-> [type |-> "array", items |-> gs]]
stringifyPrefs(p) ==
  [k |-> "json", json |-> [type |-> "object", currency |-> p.currency, theme |-> p.theme]]

saveGoalsSlotOnly(gs, p, st) == [goals |-> stringifyGoals(gs), prefs |-> st.prefs]
(* Two setItem calls; st is the storage before them. *)
saveToStorage(gs, p, st) ==
  IF writable
  THEN [goals |-> stringifyGoals(gs), prefs |-> stringifyPrefs(p)]
  ELSE st

(* loadFromStorage run on the fresh module state (goals = [], default      *)
(* prefs): a slot that is absent or holds text JSON.parse rejects, or a    *)
(* parsed value of another type, leaves the field as it is; a throw in     *)
(* either parse resets both.                                               *)
loadFromStorage(st) ==
  IF st.goals.k = "garbage" \/ st.prefs.k = "garbage"
  THEN [goals |-> <<>>, prefs |-> defaultPrefs]
  ELSE [goals |-> IF st.goals.k = "json" /\ st.goals.json.type = "array"
                  THEN st.goals.json.items ELSE <<>>,
        prefs |-> IF st.prefs.k = "json" /\ st.prefs.json.type = "object"
                  THEN [currency |-> IF st.prefs.json.currency = "USD" THEN "USD" ELSE "INR",
                        theme |-> IF st.prefs.json.theme = "light" THEN "light" ELSE "dark"]
                  ELSE defaultPrefs]

resetGoalsOnly(gs, p) == [goals |-> <<>>, prefs |-> p]
(* Lines 311-312 of resetAll. *)
resetState(gs, p) == [goals |-> <<>>, prefs |-> defaultPrefs]

(* The last handler run: op and path name the handler and the source line  *)
(* it finished at; out, msg and rem are what it showed (it rendered,       *)
(* returned silently, raised an alert or set the form error, and the       *)
(* amount an alert names).                                                 *)
Outcome(op, path, out, msg, rem) ==
  [op |-> op, path |-> path, out |-> out, msg |-> msg, rem |-> rem]

(* How a handler that reaches render() ends: rendered and saved, or with   *)
(* the exception of the first setItem (line 113), which neither            *)
(* saveToStorage nor render nor any handler catches.                       *)
Rendered(op, path) ==
  IF writable
  THEN Outcome(op, path, "render", "none", 0)
  ELSE Outcome(op, "L113", "throw", "none", 0)

(* ---------- Init ---------- *)
(* init() on an empty localStorage: load, then render, which saves. *)
Init ==
  /\ writable = TRUE
  /\ goals = loadFromStorage([goals |-> Absent, prefs |-> Absent]).goals
  /\ prefs = loadFromStorage([goals |-> Absent, prefs |-> Absent]).prefs
  /\ storage = saveToStorage(goals, prefs, [goals |-> Absent, prefs |-> Absent])
  /\ last = Rendered("init", "L401")

(* ---------- Actions ---------- *)
(* addGoalForm submit handler, and addGoal when the input passes. *)
SubmitAddGoal(name, desc, text, id) ==
  /\ UNCHANGED writable
  /\ LET target == safeNumber(text) IN
     IF trim(name) = <<>>
     THEN /\ last' = Outcome("addGoal", "L328", "formError", "name", 0)
          /\ UNCHANGED <<goals, prefs, storage>>
     ELSE IF ~isFinite(target) \/ target.v <= 0
     THEN /\ last' = Outcome("addGoal", "L332", "formError", "target", 0)
          /\ UNCHANGED <<goals, prefs, storage>>
     ELSE /\ Len(goals) < MaxGoals
          /\ last' = Rendered("addGoal", "L260")
          /\ goals' = Append(goals, newGoal(id, name, desc, target.v))
          /\ storage' = saveToStorage(goals', prefs, storage)
          /\ UNCHANGED prefs

(* Click on a card's delete button: confirm, then deleteGoal. *)
ClickDelete(id, ok) ==
  /\ UNCHANGED writable
  /\ IF ~ok
     THEN /\ last' = Outcome("deleteGoal", "L369", "declined", "none", 0)
          /\ UNCHANGED <<goals, prefs, storage>>
     ELSE /\ last' = Rendered("deleteGoal", "L265")
          /\ goals' = filterGoals(goals, id)
          /\ storage' = saveToStorage(goals', prefs, storage)
          /\ UNCHANGED prefs

(* Submit of a card's savings form, and addSavings when the input passes. *)
SubmitAddSavings(id, text) ==
  /\ UNCHANGED writable
  /\ LET amtIn == safeNumber(text)
         i == find(goals, id)
         remaining == computeRemaining(goals[i].target, goals[i].saved)
         amt == round2(amtIn.v)
     IN
     IF ~isFinite(amtIn) \/ amtIn.v <= 0
     THEN /\ last' = Outcome("addSavings", "L391", "alert", "invalidAmount", 0)
          /\ UNCHANGED <<goals, prefs, storage>>
     ELSE IF i = 0
     THEN /\ last' = Outcome("addSavings", "L270", "return", "none", 0)
          /\ UNCHANGED <<goals, prefs, storage>>
     ELSE IF ~(amt > 0)
     THEN /\ last' = Outcome("addSavings", "L275", "return", "none", 0)
          /\ UNCHANGED <<goals, prefs, storage>>
     ELSE IF exceedsRemaining(amt, remaining)
     THEN /\ last' = Outcome("addSavings", "L280", "alert", "exceeds", remaining)
          /\ UNCHANGED <<goals, prefs, storage>>
     ELSE /\ last' = Rendered("addSavings", "L284")
          /\ goals' = [goals EXCEPT ![i].saved = round2(goals[i].saved + amt)]
          /\ storage' = saveToStorage(goals', prefs, storage)
          /\ UNCHANGED prefs

(* Click on a card's edit button: editTarget, input being what prompt()    *)
(* returns when the goal exists.                                           *)
ClickEdit(id, input) ==
  /\ UNCHANGED writable
  /\ LET i == find(goals, id)
         newTarget == safeNumber(input)
         target == round2(newTarget.v)
     IN
     IF i = 0
     THEN /\ last' = Outcome("editTarget", "L289", "return", "none", 0)
          /\ UNCHANGED <<goals, prefs, storage>>
     ELSE IF input = Null
     THEN /\ last' = Outcome("editTarget", "L293", "return", "none", 0)
          /\ UNCHANGED <<goals, prefs, storage>>
     ELSE IF ~isFinite(newTarget) \/ newTarget.v <= 0
     THEN /\ last' = Outcome("editTarget", "L298", "alert", "invalidTarget", 0)
          /\ UNCHANGED <<goals, prefs, storage>>
     ELSE /\ last' = Rendered("editTarget", "L305")
          /\ goals' = [goals EXCEPT ![i].target = target,
                                    ![i].saved = clampSaved(goals[i].saved, target)]
          /\ storage' = saveToStorage(goals', prefs, storage)
          /\ UNCHANGED prefs

(* resetAll: confirm, clear, save, render (which saves again). *)
ClickResetAll(ok) ==
  /\ UNCHANGED writable
  /\ IF ~ok
     THEN /\ last' = Outcome("resetAll", "L310", "declined", "none", 0)
          /\ UNCHANGED <<goals, prefs, storage>>
     ELSE /\ last' = Rendered("resetAll", "L314")
          /\ goals' = resetState(goals, prefs).goals
          /\ prefs' = resetState(goals, prefs).prefs
          /\ storage' = saveToStorage(goals', prefs',
                                      saveToStorage(goals', prefs', storage))

toggleCurrencyToUSD(p) == [p EXCEPT !.currency = "USD"]
toggleCurrency(p) == [p EXCEPT !.currency = IF p.currency = "INR" THEN "USD" ELSE "INR"]
toggleTheme(p) == [p EXCEPT !.theme = IF p.theme = "dark" THEN "light" ELSE "dark"]

ClickCurrencyToggle ==
  /\ prefs' = toggleCurrency(prefs)
  /\ storage' = saveToStorage(goals, prefs', storage)
  /\ last' = Rendered("toggleCurrency", "L348")
  /\ UNCHANGED goals
  /\ UNCHANGED writable

ClickThemeToggle ==
  /\ prefs' = toggleTheme(prefs)
  /\ storage' = saveToStorage(goals, prefs', storage)
  /\ last' = Rendered("toggleTheme", "L353")
  /\ UNCHANGED goals
  /\ UNCHANGED writable

(* Page reload: the module state starts afresh and init() runs. *)
Reload ==
  /\ goals' = loadFromStorage(storage).goals
  /\ prefs' = loadFromStorage(storage).prefs
  /\ storage' = saveToStorage(goals', prefs', storage)
  /\ last' = Rendered("init", "L401")
  /\ UNCHANGED writable

Next ==
  \/ \E name \in NameInputs, desc \in DescInputs, text \in TextInputs, id \in Ids :
        SubmitAddGoal(name, desc, text, id)
  \/ \E id \in Ids, ok \in BOOLEAN : ClickDelete(id, ok)
  \/ \E id \in Ids, text \in TextInputs : SubmitAddSavings(id, text)
  \/ \E id \in Ids, input \in TextInputs \cup {Null} : ClickEdit(id, input)
  \/ \E ok \in BOOLEAN : ClickResetAll(ok)
  \/ ClickCurrencyToggle
  \/ ClickThemeToggle
  \/ Reload

Spec == Init /\ [][Next]_vars

(* ---------- round2 on large amounts ---------- *)
(* The doubles of [2^45, 2^46) lie 2^-7 apart, wider than 0.01.  An amount *)
(* of that range is written as its offset j from 39181314066408 in steps   *)
(* of 2^-7.  For such n, n + Number.EPSILON is n; n * 100 lies in          *)
(* [2^51, 2^52), whose doubles are 1/2 apart; the quotient by 100 is       *)
(* again a double of [2^45, 2^46).  Each operation rounds its exact result *)
(* to the nearest double, ties to the even significand; the base is even   *)
(* in both grids, so the parity of an offset is that of the significand.   *)
MaxOffset == 31

roundTiesToEven(num, den) ==
  LET q == num \div den
      r == num % den
  IN IF 2 * r < den THEN q
     ELSE IF 2 * r > den THEN q + 1
     ELSE IF q % 2 = 0 THEN q ELSE q + 1

(* Math.round of h halves: the nearest integer, a half going up. *)
MathRound(h) == (h + 1) \div 2

(* (n + EPSILON) * 100 in halves above 100 * base is 25j/16 rounded;       *)
(* Math.round gives k whole hundredths; k / 100 in steps of 2^-7 is        *)
(* 32k/25 rounded.                                                         *)
round2Large(j) ==
  roundTiesToEven(32 * MathRound(roundTiesToEven(25 * j, 16)), 25)

LargeInputs == 0..MaxOffset

newGoalLarge(id, name, desc, j) ==
  [id |-> id, name |-> trim(name), desc |-> trim(desc),
   target |-> round2Large(j), saved |-> 0]

(* addGoalForm submit with a target of the large range: finite and         *)
(* positive, so only the name can be refused.                              *)
SubmitAddGoalLarge(name, desc, j, id) ==
  /\ UNCHANGED writable
  /\ IF trim(name) = <<>>
     THEN /\ last' = Outcome("addGoal", "L328", "formError", "name", 0)
          /\ UNCHANGED <<goals, prefs, storage>>
     ELSE /\ Len(goals) < MaxGoals
          /\ last' = Rendered("addGoal", "L260")
          /\ goals' = Append(goals, newGoalLarge(id, name, desc, j))
          /\ storage' = saveToStorage(goals', prefs, storage)
          /\ UNCHANGED prefs

(* editTarget with a new target of the large range; saved is 0 in this     *)
(* specification and the clamp to [0, target] keeps it.                    *)
ClickEditLarge(id, j) ==
  /\ UNCHANGED writable
  /\ LET i == find(goals, id) IN
     IF i = 0
     THEN /\ last' = Outcome("editTarget", "L289", "return", "none", 0)
          /\ UNCHANGED <<goals, prefs, storage>>
     ELSE /\ last' = Rendered("editTarget", "L305")
          /\ goals' = [goals EXCEPT ![i].target = round2Large(j)]
          /\ storage' = saveToStorage(goals', prefs, storage)
          /\ UNCHANGED prefs

NextLarge ==
  \/ \E name \in NameInputs, desc \in DescInputs, j \in LargeInputs, id \in Ids :
       SubmitAddGoalLarge(name, desc, j, id)
  \/ \E id \in Ids, j \in LargeInputs : ClickEditLarge(id, j)
  \/ \E id \in Ids, ok \in BOOLEAN : ClickDelete(id, ok)

SpecLarge == Init /\ [][NextLarge]_vars

(* ---------- storage that refuses writes ---------- *)
(* The page is opened with a localStorage whose setItem throws (quota      *)
(* exhausted or storage disabled) and both slots empty.                    *)
InitDisabled ==
  /\ writable = FALSE
  /\ goals = loadFromStorage([goals |-> Absent, prefs |-> Absent]).goals
  /\ prefs = loadFromStorage([goals |-> Absent, prefs |-> Absent]).prefs
  /\ storage = saveToStorage(goals, prefs, [goals |-> Absent, prefs |-> Absent])
  /\ last = Rendered("init", "L401")

SpecDisabled == InitDisabled /\ [][Next]_vars

(* ---------- a page opened on slots written by anything ---------- *)
(* Text JSON.parse rejects. *)
Garbage == [k |-> "garbage", json |-> <<>>]

(* The element {} of a stored array: reading any of its properties gives   *)
(* undefined, so its id equals the id of no card and no handler reaches    *)
(* it; its amounts, NaN in arithmetic, are written 0.                      *)
emptyObject ==
  [id |-> "undefined", name |-> <<>>, desc |-> <<>>, target |-> 0, saved |-> 0]

storedGoal ==
  [id |-> "g_a", name |-> <<"B">>, desc |-> <<"d">>, target |-> 2 * Cent, saved |-> Cent]

(* Contents of the goals slot: no item, text that is not JSON, JSON that   *)
(* is not an array, and arrays: empty, of one goal, of one {}.             *)
goalsSlot(n) ==
  CASE n = 1 -> Absent
    [] n = 2 -> Garbage
    [] n = 3 -> [k |-> "json", json |-> [type |-> "number", items |-> <<>>]]
    [] n = 4 -> stringifyGoals(<<>>)
    [] n = 5 -> stringifyGoals(<<storedGoal>>)
    [] n = 6 -> stringifyGoals(<<emptyObject>>)

(* Contents of the prefs slot: no item, text that is not JSON, JSON that   *)
(* is not an object, a preferences object, and an object whose currency    *)
(* is none of INR and USD.                                                 *)
prefsSlot(n) ==
  CASE n = 1 -> Absent
    [] n = 2 -> Garbage
    [] n = 3 -> [k |-> "json", json |-> [type |-> "number", currency |-> "", theme |-> ""]]
    [] n = 4 -> stringifyPrefs([currency |-> "USD", theme |-> "light"])
    [] n = 5 -> stringifyPrefs([currency |-> "EUR", theme |-> "light"])

(* The script has run down to the call of init() on line 404: goals and    *)
(* prefs hold their initial values of lines 20 and 23.                     *)
InitLoad ==
  /\ writable = TRUE
  /\ goals = <<>>
  /\ prefs = defaultPrefs
  /\ \E n \in 1..6, m \in 1..5 : storage = [goals |-> goalsSlot(n), prefs |-> prefsSlot(m)]
  /\ last = Outcome("script", "L404", "none", "none", 0)

NextLoad ==
  \/ last.op = "script" /\ Reload
  \/ last.op # "script" /\ Next

SpecLoad == InitLoad /\ [][NextLoad]_vars

(* ---------- Claims ---------- *)
(* The remaining amount as the claims define it. *)
RemainingOf(g) == round2(Max(0, g.target - g.saved))

ValidAmount(text) == text.k = "num" /\ text.v > 0

C6_Rejected(op) ==
  \/ /\ op = "addSavings"
     /\ \E id \in Ids :
          LET i == find(goals, id) IN
          \E text \in TextInputs :
            /\ \/ i = 0
               \/ ~ValidAmount(text)
               \/ ~(round2(text.v) > 0)
               \/ round2(text.v) > RemainingOf(goals[i])
            /\ SubmitAddSavings(id, text)
  \/ /\ op = "editTarget"
     /\ \E id \in Ids :
          LET i == find(goals, id) IN
          \E input \in TextInputs \cup {Null} :
            /\ i = 0 \/ input = Null \/ ~ValidAmount(input)
            /\ ClickEdit(id, input)
  \/ /\ op = "addGoal"
     /\ \E name \in NameInputs, text \in TextInputs :
          /\ trim(name) = <<>> \/ ~ValidAmount(text)
          /\ \E desc \in DescInputs, id \in Ids : SubmitAddGoal(name, desc, text, id)
  \/ /\ op = "deleteGoal"
     /\ \E id \in Ids : ClickDelete(id, FALSE)
  \/ /\ op = "resetAll"
     /\ ClickResetAll(FALSE)

C6_RejectionKeepsState ==
  [][(goals' = goals /\ prefs' = prefs /\ storage' = storage) \/ ~C6_Rejected(last'.op)]_vars

(* C6 witness: an addSavings beyond the remaining amount was turned away   *)
(* from a store that holds goals and toggled preferences.                  *)
C6_Witness ==
  /\ last.path = "L280"
  /\ goals # <<>>
  /\ prefs # defaultPrefs

C3_LoweredTargetIsFull ==
  [][last'.op = "editTarget" =>
      \A id \in Ids, input \in TextInputs :
        LET i == find(goals, id) IN
        (/\ ValidAmount(input)
         /\ i # 0
         /\ input.v < goals[i].saved
         /\ ClickEdit(id, input))
        => /\ goals'[i].saved = goals'[i].target
           /\ computeProgressPct(goals'[i].target, goals'[i].saved) = 10000]_vars

C5_TargetPositive ==
  \A i \in DOMAIN goals : goals[i].target > 0

(* C7 as stated: addSavings or editTarget on an id no goal has reports     *)
(* NotFound instead of returning silently.                                 *)
C7_UnknownIdReported ==
  [][last'.op \in {"addSavings", "editTarget"} =>
      \A id \in Ids :
        (/\ find(goals, id) = 0
         /\ \/ \E text \in TextInputs : ValidAmount(text) /\ SubmitAddSavings(id, text)
            \/ \E input \in TextInputs \cup {Null} : ClickEdit(id, input))
        => last'.out # "return" /\ last'.msg = "notFound"]_vars

(* C8: a confirmed delete keeps exactly the goals with another id, with    *)
(* their fields and in their order, and keeps the preferences; when no     *)
(* goal has the id the collection is unchanged and the call ends           *)
(* normally; afterwards no goal has the id, so a second delete is that     *)
(* no-op.                                                                  *)
C8_DeleteRemovesOnlyMatching ==
  [][last'.op = "deleteGoal" =>
      \A id \in Ids :
        ClickDelete(id, TRUE) =>
          LET keep == {i \in DOMAIN goals : goals[i].id # id} IN
          /\ Len(goals') = Cardinality(keep)
          /\ \A i \in keep : goals'[Cardinality({j \in keep : j <= i})] = goals[i]
          /\ prefs' = prefs
          /\ keep = DOMAIN goals => goals' = goals
          /\ \A k \in DOMAIN goals' : goals'[k].id # id
          /\ last'.out = "render"]_vars

(* C8 witness: deleteGoal has run and left a goal in place. *)
C8_Witness ==
  /\ last.path = "L265"
  /\ Len(goals) = MaxGoals - 1
  /\ goals[1].saved > 0

(* C9: a confirmed resetAll leaves no goal and the default preferences     *)
(* {INR, dark}, in memory and in both storage slots.                       *)
C9_ResetAllRestoresDefaults ==
  [][ClickResetAll(TRUE) =>
      /\ goals' = <<>>
      /\ prefs' = [currency |-> "INR", theme |-> "dark"]
      /\ storage'.goals = stringifyGoals(<<>>)
      /\ storage'.prefs = stringifyPrefs([currency |-> "INR", theme |-> "dark"])
      /\ loadFromStorage(storage') =
           [goals |-> <<>>, prefs |-> [currency |-> "INR", theme |-> "dark"]]]_vars

(* C9 witness: resetAll has run to its end. *)
C9_Witness ==
  /\ last.path = "L314"
  /\ goals = <<>>

C13_IdsUnique ==
  \A i, j \in DOMAIN goals : i # j => goals[i].id # goals[j].id

(* C14: the currency toggle flips prefs.currency between INR and USD and   *)
(* the theme toggle flips prefs.theme between dark and light; each leaves  *)
(* the other preference and every goal as they were, and the same toggle   *)
(* applied again gives the previous preferences back.                      *)
C14_TogglesFlipOneField ==
  [][/\ ClickCurrencyToggle =>
         /\ prefs.currency = "INR" => prefs'.currency = "USD"
         /\ prefs.currency = "USD" => prefs'.currency = "INR"
         /\ prefs'.theme = prefs.theme
         /\ goals' = goals
         /\ toggleCurrency(prefs') = prefs
     /\ ClickThemeToggle =>
         /\ prefs.theme = "dark" => prefs'.theme = "light"
         /\ prefs.theme = "light" => prefs'.theme = "dark"
         /\ prefs'.currency = prefs.currency
         /\ goals' = goals
         /\ toggleTheme(prefs') = prefs]_vars

(* C14 witness: the currency was toggled back to INR over a store with     *)
(* savings and the light theme.                                            *)
C14_Witness ==
  /\ last.op = "toggleCurrency"
  /\ prefs = [currency |-> "INR", theme |-> "light"]
  /\ \E i \in DOMAIN goals : goals[i].saved > 0

RECURSIVE SumRemaining(_)
SumRemaining(gs) ==
  IF gs = <<>> THEN 0 ELSE RemainingOf(gs[Len(gs)]) + SumRemaining(SubSeq(gs, 1, Len(gs) - 1))

C16_StoredEqualsOwnRound2 ==
  \A i \in DOMAIN goals : round2Large(goals[i].target) = goals[i].target

Achieved(g) == g.saved = g.target /\ g.target > 0

(* C18: while a goal is in the collection its saved amount never goes      *)
(* down, except when editTarget sets that goal's target below its saved    *)
(* amount (saved then becomes the new target); a deletion leaves the       *)
(* goals it keeps as they were.  And addSavings on an achieved goal        *)
(* (saved = target > 0) changes nothing and is not carried out, for any    *)
(* amount.                                                                 *)
C18_SavedMonotoneAndAchievedFinal ==
  [][/\ last'.op \notin {"deleteGoal", "resetAll"} =>
         /\ Len(goals') >= Len(goals)
         /\ \A i \in DOMAIN goals :
              \/ goals'[i].saved >= goals[i].saved
              \/ /\ last'.op = "editTarget"
                 /\ goals'[i].target < goals[i].saved
                 /\ goals'[i].saved = goals'[i].target
                 /\ \A k \in DOMAIN goals : k # i => goals'[k] = goals[k]
     /\ last'.op = "deleteGoal" =>
         \A k \in DOMAIN goals' : \E i \in DOMAIN goals : goals'[k] = goals[i]
     /\ last'.op = "addSavings" =>
         \A id \in Ids :
           LET i == find(goals, id) IN
           (i # 0 /\ Achieved(goals[i])) =>
             \/ goals' = goals /\ storage' = storage
                  /\ last'.out \in {"alert", "return"}
             \/ ~\E text \in TextInputs : SubmitAddSavings(id, text)]_vars

(* C18 witness: savings were refused on an achieved goal whose target had  *)
(* earlier been lowered to its saved amount or reached by savings, with    *)
(* nothing remaining.                                                      *)
C18_Witness ==
  /\ last.op = "addSavings"
  /\ last.msg = "exceeds"
  /\ last.rem = 0
  /\ \E i \in DOMAIN goals : Achieved(goals[i])

(* C11 as stated: no operation, init included, ends by passing the         *)
(* exception of a failing storage write on to its caller.                  *)
C11_WriteFailureNotPropagated ==
  last.out # "throw"

(* A slot holds data of the expected shape. *)
IsGoalList(blob) ==
  /\ blob.k = "json"
  /\ blob.json.type = "array"
  /\ \A i \in DOMAIN blob.json.items : blob.json.items[i].id # "undefined"

IsPrefs(blob) ==
  /\ blob.k = "json"
  /\ blob.json.type = "object"
  /\ blob.json.currency \in {"INR", "USD"}
  /\ blob.json.theme \in {"dark", "light"}

(* C12 as stated: whatever the two slots hold, init() ends normally, and   *)
(* a slot that is absent, unparseable or not of the expected shape gives   *)
(* the default of its own part of the state: no goals for the goals slot,  *)
(* INR and dark for the prefs slot.                                        *)
C12_LoadSubstitutesDefaults ==
  [][last'.op = "init" =>
       /\ last'.out = "render"
       /\ ~IsGoalList(storage.goals) => goals' = <<>>
       /\ ~IsPrefs(storage.prefs) => prefs' = defaultPrefs]_vars

(* C17 as stated: when the goals slot holds a goal list and the prefs slot *)
(* text that cannot be parsed, init() loads the stored goals, takes the    *)
(* default preferences and leaves the goals slot as it was.                *)
C17_CorruptPrefsKeepsGoals ==
  [][(/\ last'.op = "init"
      /\ IsGoalList(storage.goals)
      /\ storage.prefs.k = "garbage") =>
       /\ goals' = storage.goals.json.items
       /\ prefs' = defaultPrefs
       /\ storage'.goals = storage.goals]_vars

====
